---------------------------- MODULE Spec2Model ----------------------------
(***************************************************************************)
(* Model of the qemu process supervisor of qemu/qemu-kernel.go.            *)
(*                                                                         *)
(* One QemuSystem, its child process, and the goroutines Start launches:   *)
(*   main     the caller: NewQemuSystem, Debug, Start, then Stop calls     *)
(*   capture  readUntilEOF on the child's stdout                           *)
(*   captureErr  readUntilEOF on the child's stderr                        *)
(*   wait     q.exitErr = q.cmd.Wait(); q.Died = true                      *)
(*   watcher  panicWatcher                                                 *)
(*   timer    the Timeout goroutine                                        *)
(*                                                                         *)
(* The code shares q.Died, q.Stdout, q.KernelPanic and q.KilledByTimeout   *)
(* between goroutines without any synchronisation.  Every access to a      *)
(* shared field is a step of its own here, so that every order in which    *)
(* the unsynchronised reads and writes can land is a behaviour; a read     *)
(* that observes an older value is the same as the read taking place       *)
(* earlier.  time.Sleep carries no state: a sleep is part of the step of   *)
(* the statement that follows it, and steps may be arbitrarily far apart;  *)
(* only the sleep that paces panicWatcher's loop is a step of its own.     *)
(***************************************************************************)
EXTENDS Naturals, Sequences, FiniteSets

\* How many chunks the guest writes to its console at most.
MaxWrites == 2
\* How many times the caller invokes Stop at most.
MaxStops == 1

\* readUntilEOF's read buffer
bufSize == 1024

\* The signature panicWatcher looks for: "Kernel panic"
PanicSig == <<"K", "e", "r", "n", "e", "l", " ", "p", "a", "n", "i", "c">>

\* What one console write of the guest may carry: the two halves of a console
\* line such as "] Kernel panic -".
Chunks == { <<"]", " ", "K", "e", "r", "n", "e", "l", " ">>,
            <<"p", "a", "n", "i", "c", " ", "-">> }

\* What a failing emulator writes to stderr before it exits.
ErrMessage == << "e", "r", "r" >>

\* q.Timeout: zero (no timeout goroutine) or some positive duration.
Timeouts == {0, 1}

\* type arch: the two supported values and the one kept for tests
X86_64 == "x86_64"
I386 == "i386"
unsupported == "unsupported"
Archs == {X86_64, I386, unsupported}

\* The kernel image and the disk image the caller names.
KernelPath == "/boot/vmlinuz"
DrivePath == "/images/rootfs.img"
Paths == {KernelPath, DrivePath}

\* The emulator binaries a host may have on its search path.
Binaries == {"qemu-system-x86_64", "qemu-system-i386"}

\* Values rand.Int() may yield.
RandInts == {0, 70000}

\* A host: runtime.GOOS, whether /dev/kvm exists, the binaries on the search
\* path, the files that exist, and the values the seeded generator yields.
Hosts ==
    [goos : {"linux", "darwin"}, kvm : BOOLEAN, path : SUBSET Binaries,
     files : SUBSET Paths, rand : (SUBSET RandInts) \ {{}}]

\* What the caller passes: NewQemuSystem's arguments, and the argument of
\* Debug ("" when the caller does not call Debug).
Inputs ==
    [arch : Archs,
     kernel : [KernelPath : {KernelPath}, InitrdPath : {"", "/boot/initrd.img"}],
     drivePath : {DrivePath},
     gdb : {"", "tcp::1234"}]

\* The goroutines that execute Stop.
Stoppers == {"main", "watcher", "timer"}
Tasks == Stoppers \cup {"wait", "capture", "captureErr"}

VARIABLES
    pc,              \* position of every task
    Timeout,         \* q.Timeout
    KilledByTimeout, \* q.KilledByTimeout
    KernelPanic,     \* q.KernelPanic
    Died,            \* q.Died
    exitErr,         \* q.exitErr
    cmd,             \* q.cmd: "nil", "command" (exec.Command), "started"
    pipe,            \* q.pipe: each of stdin, stdout, stderr "nil", "open", "closed"
    Stdout,          \* q.Stdout
    startErr,        \* what Start returned ("pending" until it returns)
    child,           \* the OS process: "none", "running", "exited", "reaped"
    childStatus,     \* how the child ended
    quitPending,     \* the quit escape is in the running child's stdin
    sigPending,      \* signals delivered to the running child
    outPipe,         \* bytes in the stdout pipe, written and not yet read
    outWritten,      \* every byte the child wrote to stdout
    writes,          \* number of console writes so far
    Stderr,          \* q.Stderr
    errPipe,         \* bytes in the stderr pipe, written and not yet read
    errWritten,      \* every byte the child wrote to stderr
    stopCalls,       \* per task: number of Stop invocations
    diedAtCall,      \* per task: q.Died when its latest Stop was invoked
    stopLog,         \* per task: what its latest Stop has done, in order
    termSignals,     \* number of Process.Signal(SIGTERM) calls
    killSignals,     \* number of Process.Signal(SIGKILL) calls
    host,            \* the machine the program runs on
    input,           \* what the caller passes to NewQemuSystem and Debug
    conf,            \* q.arch, q.kernel, q.drivePath, q.Cpus, q.Memory, q.debug, q.gdb
    newErr,          \* what NewQemuSystem returned (op "pending" until it returns)
    sshAddrPort,     \* q.sshAddrPort
    qemuArgs         \* the arguments of q.cmd

vars == << pc, Timeout, KilledByTimeout, KernelPanic, Died, exitErr, cmd, pipe,
           Stdout, startErr, child, childStatus, quitPending, sigPending,
           outPipe, outWritten, writes, Stderr, errPipe, errWritten, stopCalls, diedAtCall, stopLog,
           termSignals, killSignals,
           host, input, conf, newErr, sshAddrPort, qemuArgs >>

launchVars == << host, input, conf, newErr, sshAddrPort, qemuArgs >>
flagVars == << KilledByTimeout, KernelPanic, Died, exitErr >>
childVars == << child, childStatus, quitPending, sigPending >>
errVars == << Stderr, errPipe, errWritten >>
streamVars == << Stdout, outPipe, outWritten, writes, errVars >>
stopVars == << stopCalls, diedAtCall, stopLog, termSignals, killSignals >>
runVars == << Timeout, flagVars, cmd, pipe, startErr, childVars, streamVars,
              stopVars >>

Min(a, b) == IF a <= b THEN a ELSE b

\* bytes.HasPrefix in the place of bytes.Contains
HasPrefix(s, sub) ==
    /\ Len(sub) <= Len(s)
    /\ SubSeq(s, 1, Len(sub)) = sub

\* bytes.Contains
Contains(s, sub) ==
    \E i \in 0..Len(s) :
        /\ i + Len(sub) <= Len(s)
        /\ SubSeq(s, i + 1, i + Len(sub)) = sub

\* A nil error of NewQemuSystem; an error carries the failed operation and the
\* name it failed on, as *exec.Error and *os.PathError do.
NoError == [op |-> "nil", name |-> ""]

\* A QemuSystem that NewQemuSystem has not filled in: Go's zero values.
ZeroConf ==
    [arch |-> "", kernel |-> [KernelPath |-> "", InitrdPath |-> ""],
     drivePath |-> "", Cpus |-> 0, Memory |-> 0, debug |-> FALSE, gdb |-> ""]

\* The state before the caller's NewQemuSystem, whatever the host and the
\* arguments are.
RunInit ==
    /\ pc = [t \in Tasks |-> IF t = "main" THEN "new" ELSE "none"]
    /\ conf = ZeroConf
    /\ newErr = [op |-> "pending", name |-> ""]
    /\ sshAddrPort = ""
    /\ qemuArgs = << >>
    /\ Timeout \in Timeouts
    /\ KilledByTimeout = FALSE
    /\ KernelPanic = FALSE
    /\ Died = FALSE
    /\ exitErr = "nil"
    /\ cmd = "nil"
    /\ pipe = [stdin |-> "nil", stdout |-> "nil", stderr |-> "nil"]
    /\ Stdout = << >>
    /\ startErr = "pending"
    /\ child = "none"
    /\ childStatus = "none"
    /\ quitPending = FALSE
    /\ sigPending = {}
    /\ outPipe = << >>
    /\ outWritten = << >>
    /\ writes = 0
    /\ Stderr = << >>
    /\ errPipe = << >>
    /\ errWritten = << >>
    /\ stopCalls = [t \in Stoppers |-> 0]
    /\ diedAtCall = [t \in Stoppers |-> FALSE]
    /\ stopLog = [t \in Stoppers |-> << >>]
    /\ termSignals = 0
    /\ killSignals = 0

\* One launch: a linux host with kvm and everything in place, an x86_64
\* machine with a debugger endpoint.  The supervision that follows a launch
\* reads neither the host nor the invocation.
Init ==
    /\ RunInit
    /\ host = [goos |-> "linux", kvm |-> TRUE, path |-> Binaries,
               files |-> Paths, rand |-> {0}]
    /\ input = [arch |-> X86_64,
                kernel |-> [KernelPath |-> KernelPath, InitrdPath |-> ""],
                drivePath |-> DrivePath, gdb |-> "tcp::1234"]

\* Every host and every call.
LaunchInit ==
    /\ RunInit
    /\ host \in Hosts
    /\ input \in Inputs

---------------------------------------------------------------------------
(* NewQemuSystem, Debug, and the head of Start *)

\* strconv-style decimal formatting, as fmt's %d does it
Digit(d) ==
    CASE d = 0 -> "0" [] d = 1 -> "1" [] d = 2 -> "2" [] d = 3 -> "3"
      [] d = 4 -> "4" [] d = 5 -> "5" [] d = 6 -> "6" [] d = 7 -> "7"
      [] d = 8 -> "8" [] d = 9 -> "9"

RECURSIVE Itoa(_)
Itoa(n) == IF n < 10 THEN Digit(n) ELSE Itoa(n \div 10) \o Digit(n % 10)

\* exec.LookPath
LookPath(file) == file \in host.path

\* os.Stat
Stat(path) == path \in host.files

\* NewQemuSystem without the os.Stat of the drive.
NewQemuSystemSkipsDrive ==
    /\ pc["main"] = "new"
    /\ IF ~LookPath("qemu-system-" \o input.arch)
          THEN /\ newErr' = [op |-> "exec", name |-> "qemu-system-" \o input.arch]
               /\ conf' = conf
          ELSE IF ~Stat(input.kernel.KernelPath)
          THEN /\ newErr' = [op |-> "stat", name |-> input.kernel.KernelPath]
               /\ conf' = [conf EXCEPT !.arch = input.arch]
          ELSE /\ newErr' = NoError
               /\ conf' = [conf EXCEPT !.arch = input.arch,
                                       !.kernel = input.kernel,
                                       !.drivePath = input.drivePath,
                                       !.Cpus = 1,
                                       !.Memory = 512]
    /\ pc' = [pc EXCEPT !["main"] = IF newErr' = NoError THEN "configured"
                                                      ELSE "rejected"]
    /\ UNCHANGED << host, input, sshAddrPort, qemuArgs, runVars >>

\* NewQemuSystem: the binary, the kernel and the drive are looked up in this
\* order, and the first one missing is the error returned.
NewQemuSystem ==
    /\ pc["main"] = "new"
    /\ IF ~LookPath("qemu-system-" \o input.arch)
          THEN /\ newErr' = [op |-> "exec", name |-> "qemu-system-" \o input.arch]
               /\ conf' = conf
          ELSE IF ~Stat(input.kernel.KernelPath)
          THEN /\ newErr' = [op |-> "stat", name |-> input.kernel.KernelPath]
               /\ conf' = [conf EXCEPT !.arch = input.arch]
          ELSE IF ~Stat(input.drivePath)
          THEN /\ newErr' = [op |-> "stat", name |-> input.drivePath]
               /\ conf' = [conf EXCEPT !.arch = input.arch,
                                       !.kernel = input.kernel]
          ELSE /\ newErr' = NoError
               /\ conf' = [conf EXCEPT !.arch = input.arch,
                                       !.kernel = input.kernel,
                                       !.drivePath = input.drivePath,
                                       !.Cpus = 1,
                                       !.Memory = 512]
    /\ pc' = [pc EXCEPT !["main"] = IF newErr' = NoError THEN "configured"
                                                      ELSE "rejected"]
    /\ UNCHANGED << host, input, sshAddrPort, qemuArgs, runVars >>

\* Debug(conn), called ahead of Start by a caller that wants a debugger.
Debug ==
    /\ pc["main"] = "configured"
    /\ input.gdb # ""
    /\ ~conf.debug
    /\ conf' = [conf EXCEPT !.debug = TRUE, !.gdb = input.gdb]
    /\ UNCHANGED << pc, host, input, newErr, sshAddrPort, qemuArgs, runVars >>

getRandomAddrPort(r1, r2, r3, r4) ==
    "127." \o Itoa((r1 % 254) + 1) \o "." \o Itoa(r2 % 255) \o "."
           \o Itoa(r3 % 254) \o ":" \o Itoa((r4 % 40000) + 10000)

getRandomPort(ip, r) == ip \o ":" \o Itoa((r % (65536 - 1024)) + 1024)

\* The candidates one iteration of getFreeAddrPort may synthesize.
Candidates ==
    IF host.goos = "linux"
       THEN { getRandomAddrPort(r1, r2, r3, r4) : r1 \in host.rand, r2 \in host.rand,
                                                  r3 \in host.rand, r4 \in host.rand }
       ELSE { getRandomPort("127.0.0.1", r) : r \in host.rand }

\* The head of Start: one iteration of getFreeAddrPort's loop.  net.Listen
\* succeeds or not; when it does not, time.Now().After(timeout) is read, and
\* the loop goes round again or the program panics.
getFreeAddrPort ==
    /\ pc["main"] = "configured"
    /\ input.gdb # "" => conf.debug
    /\ \E addrPort \in Candidates, bound \in BOOLEAN, late \in BOOLEAN :
          IF bound
             THEN /\ sshAddrPort' = addrPort
                  /\ pc' = [pc EXCEPT !["main"] = "args"]
             ELSE /\ sshAddrPort' = sshAddrPort
                  /\ pc' = IF late THEN [pc EXCEPT !["main"] = "panicked"] ELSE pc
    /\ UNCHANGED << host, input, conf, newErr, qemuArgs, runVars >>

\* os.Stat("/dev/kvm")
kvmExists == host.kvm

\* The argument list Start builds.
QemuArgs ==
    << "-snapshot", "-nographic",
       "-hda", conf.drivePath,
       "-kernel", conf.kernel.KernelPath,
       "-append", "root=/dev/sda ignore_loglevel console=ttyS0 rw",
       "-smp", Itoa(conf.Cpus),
       "-m", Itoa(conf.Memory),
       "-device", "e1000,netdev=n1",
       "-netdev", "user,id=n1," \o "hostfwd=tcp:" \o sshAddrPort \o "-:22" >>
    \o (IF conf.debug THEN << "-gdb", conf.gdb >> ELSE << >>)
    \o (IF conf.kernel.InitrdPath # "" THEN << "-initrd", conf.kernel.InitrdPath >>
                                        ELSE << >>)
    \o (IF (conf.arch = X86_64 \/ conf.arch = I386) /\ kvmExists
           THEN << "-enable-kvm" >> ELSE << >>)
    \o (IF conf.arch = X86_64 /\ host.goos = "darwin"
           THEN << "-accel", "hvf", "-cpu", "host" >> ELSE << >>)

\* Start, from hostfwd to the last append to qemuArgs.
StartArgs ==
    /\ pc["main"] = "args"
    /\ qemuArgs' = QemuArgs
    /\ pc' = [pc EXCEPT !["main"] = "start"]
    /\ UNCHANGED << host, input, conf, newErr, sshAddrPort, runVars >>

LaunchNext == NewQemuSystem \/ Debug \/ getFreeAddrPort \/ StartArgs

\* The launch alone, for every host and every call.
LaunchSpec == LaunchInit /\ [][LaunchNext]_vars

---------------------------------------------------------------------------
(* Start *)

\* StartPipes with the three `err != nil` returns left out.
StartPipesIgnoresError ==
    /\ pc["main"] = "start"
    /\ cmd' = "command"
    /\ \E r \in {"ok", "stdin", "stdout", "stderr"} :
        pipe' = [stdin  |-> IF r = "stdin" THEN "nil" ELSE "open",
                 stdout |-> IF r = "stdout" THEN "nil" ELSE "open",
                 stderr |-> IF r = "stderr" THEN "nil" ELSE "open"]
    /\ pc' = [pc EXCEPT !["main"] = "spawn"]
    /\ UNCHANGED << launchVars, Timeout, flagVars, startErr, childVars, streamVars, stopVars >>

\* exec.Command and the three pipes; a pipe that cannot be opened ends Start.
StartPipes ==
    /\ pc["main"] = "start"
    /\ cmd' = "command"
    /\ \E r \in {"ok", "stdin", "stdout", "stderr"} :
        /\ pipe' = [stdin  |-> IF r = "stdin" THEN "nil" ELSE "open",
                    stdout |-> IF r \in {"stdin", "stdout"} THEN "nil" ELSE "open",
                    stderr |-> IF r = "ok" THEN "open" ELSE "nil"]
        /\ IF r = "ok"
              THEN /\ pc' = [pc EXCEPT !["main"] = "spawn"]
                   /\ UNCHANGED startErr
              ELSE /\ pc' = [pc EXCEPT !["main"] = "failed"]
                   /\ startErr' = "pipe"
    /\ UNCHANGED << launchVars, Timeout, flagVars, childVars, streamVars, stopVars >>

\* StartSpawn with the goroutines launched ahead of the `err != nil` return.
StartSpawnLaunchesFirst ==
    /\ pc["main"] = "spawn"
    /\ \E ok \in BOOLEAN :
        IF ok
           THEN /\ cmd' = "started"
                /\ child' = "running"
                /\ pc' = [pc EXCEPT !["main"] = "grace",
                                    !["capture"] = "reading",
                                    !["captureErr"] = "reading",
                                    !["wait"] = "waiting"]
                /\ UNCHANGED startErr
           ELSE /\ pc' = [pc EXCEPT !["main"] = "failed",
                                    !["capture"] = "reading",
                                    !["captureErr"] = "reading",
                                    !["wait"] = "waiting"]
                /\ startErr' = "spawn"
                /\ UNCHANGED << cmd, child >>
    /\ UNCHANGED << launchVars, Timeout, flagVars, pipe, childStatus, quitPending, sigPending,
                    streamVars, stopVars >>

StartSpawn ==
    /\ pc["main"] = "spawn"
    /\ \E ok \in BOOLEAN :
        IF ok
           THEN /\ cmd' = "started"
                /\ child' = "running"
                /\ pc' = [pc EXCEPT !["main"] = "grace",
                                    !["capture"] = "reading",
                                    !["captureErr"] = "reading",
                                    !["wait"] = "waiting"]
                /\ UNCHANGED startErr
           ELSE /\ pc' = [pc EXCEPT !["main"] = "failed"]
                /\ startErr' = "spawn"
                /\ UNCHANGED << cmd, child >>
    /\ UNCHANGED << launchVars, Timeout, flagVars, pipe, childStatus, quitPending, sigPending,
                    streamVars, stopVars >>

\* StartGrace with the `if q.Timeout != 0` test left out.
StartGraceAlwaysTimer ==
    /\ pc["main"] = "grace"
    /\ startErr' = IF Died THEN "died" ELSE "none"
    /\ pc' = [pc EXCEPT !["main"] = "live",
                        !["watcher"] = "sleep",
                        !["timer"] = "sleep"]
    /\ UNCHANGED << launchVars, Timeout, flagVars, cmd, pipe, childVars, streamVars, stopVars >>

\* StartGrace returning the immediate-exit error ahead of the monitors.
StartGraceReturnsOnDied ==
    /\ pc["main"] = "grace"
    /\ startErr' = IF Died THEN "died" ELSE "none"
    /\ pc' = IF Died
                THEN [pc EXCEPT !["main"] = "live"]
                ELSE [pc EXCEPT !["main"] = "live",
                                !["watcher"] = "sleep",
                                !["timer"] = IF Timeout # 0 THEN "sleep" ELSE "none"]
    /\ UNCHANGED << launchVars, Timeout, flagVars, cmd, pipe, childVars, streamVars, stopVars >>

StartGrace ==
    /\ pc["main"] = "grace"
    /\ startErr' = IF Died THEN "died" ELSE "none"
    /\ pc' = [pc EXCEPT !["main"] = "live",
                        !["watcher"] = "sleep",
                        !["timer"] = IF Timeout # 0 THEN "sleep" ELSE "none"]
    /\ UNCHANGED << launchVars, Timeout, flagVars, cmd, pipe, childVars, streamVars, stopVars >>

---------------------------------------------------------------------------
(* Stop, executed by the caller, the watcher or the timer *)

\* Where a task is when it is about to call Stop.
AtStopCall(t) ==
    \/ t = "main" /\ pc[t] = "live" /\ stopCalls[t] < MaxStops
    \/ t = "watcher" /\ pc[t] = "detected"
    \/ t = "timer" /\ pc[t] = "fired"

\* Where a task continues when its Stop returns.
AfterStop(t) ==
    CASE t = "main" -> "live"
      [] t = "watcher" -> "setPanic"
      [] t = "timer" -> "done"

\* Process.Signal: the signal reaches the child unless the child is gone.
Signal(sig) ==
    sigPending' = IF child = "running" THEN sigPending \cup {sig} ELSE sigPending

\* Stop is entered and the quit escape written to q.pipe.stdin.
StopWrite(t) ==
    /\ AtStopCall(t)
    /\ stopCalls' = [stopCalls EXCEPT ![t] = @ + 1]
    /\ diedAtCall' = [diedAtCall EXCEPT ![t] = Died]
    /\ stopLog' = [stopLog EXCEPT ![t] = << "quit" >>]
    /\ quitPending' = (quitPending \/ (pipe.stdin = "open" /\ child = "running"))
    /\ pc' = [pc EXCEPT ![t] = "stop_check"]
    /\ UNCHANGED << launchVars, Timeout, flagVars, cmd, pipe, startErr, child, childStatus,
                    sigPending, streamVars, termSignals, killSignals >>

\* StopCheck with the `if !q.Died` test left out.
StopCheckIgnoresDied(t) ==
    /\ pc[t] = "stop_check"
    /\ pc' = [pc EXCEPT ![t] = "stop_term"]
    /\ UNCHANGED << launchVars, Timeout, flagVars, cmd, pipe, startErr, childVars, streamVars,
                    stopVars >>

\* After the first sleep: if !q.Died
StopCheck(t) ==
    /\ pc[t] = "stop_check"
    /\ pc' = [pc EXCEPT ![t] = IF Died THEN AfterStop(t) ELSE "stop_term"]
    /\ UNCHANGED << launchVars, Timeout, flagVars, cmd, pipe, startErr, childVars, streamVars,
                    stopVars >>

\* StopTerm sending SIGKILL where SIGTERM belongs.
StopTermSendsKill(t) ==
    /\ pc[t] = "stop_term"
    /\ Signal("SIGKILL")
    /\ killSignals' = killSignals + 1
    /\ stopLog' = [stopLog EXCEPT ![t] = Append(@, "SIGKILL")]
    /\ pc' = [pc EXCEPT ![t] = "stop_kill"]
    /\ UNCHANGED << launchVars, Timeout, flagVars, cmd, pipe, startErr, child, childStatus,
                    quitPending, streamVars, stopCalls, diedAtCall, termSignals >>

\* q.cmd.Process.Signal(syscall.SIGTERM)
StopTerm(t) ==
    /\ pc[t] = "stop_term"
    /\ Signal("SIGTERM")
    /\ termSignals' = termSignals + 1
    /\ stopLog' = [stopLog EXCEPT ![t] = Append(@, "SIGTERM")]
    /\ pc' = [pc EXCEPT ![t] = "stop_kill"]
    /\ UNCHANGED << launchVars, Timeout, flagVars, cmd, pipe, startErr, child, childStatus,
                    quitPending, streamVars, stopCalls, diedAtCall, killSignals >>

\* StopKill with the SIGKILL escalation left out.
StopKillSkipped(t) ==
    /\ pc[t] = "stop_kill"
    /\ pc' = [pc EXCEPT ![t] = AfterStop(t)]
    /\ UNCHANGED << launchVars, Timeout, flagVars, cmd, pipe, startErr, childVars, streamVars,
                    stopVars >>

\* After the second sleep: q.cmd.Process.Signal(syscall.SIGKILL), and return.
StopKill(t) ==
    /\ pc[t] = "stop_kill"
    /\ Signal("SIGKILL")
    /\ killSignals' = killSignals + 1
    /\ stopLog' = [stopLog EXCEPT ![t] = Append(@, "SIGKILL")]
    /\ pc' = [pc EXCEPT ![t] = AfterStop(t)]
    /\ UNCHANGED << launchVars, Timeout, flagVars, cmd, pipe, startErr, child, childStatus,
                    quitPending, streamVars, stopCalls, diedAtCall, termSignals >>

---------------------------------------------------------------------------
(* The monitors *)

\* panicWatcher's loop: time.Sleep(time.Second)
WatcherSleep ==
    /\ pc["watcher"] = "sleep"
    /\ pc' = [pc EXCEPT !["watcher"] = "poll"]
    /\ UNCHANGED << launchVars, Timeout, flagVars, cmd, pipe, startErr, childVars, streamVars,
                    stopVars >>

\* panicWatcher's loop: the look at q.Stdout; the next round if it holds no panic.
WatcherPoll ==
    /\ pc["watcher"] = "poll"
    /\ pc' = [pc EXCEPT !["watcher"] =
                 IF Contains(Stdout, PanicSig) THEN "detected" ELSE "sleep"]
    /\ UNCHANGED << launchVars, Timeout, flagVars, cmd, pipe, startErr, childVars, streamVars,
                    stopVars >>

\* q.KernelPanic = true; return
WatcherSetPanic ==
    /\ pc["watcher"] = "setPanic"
    /\ KernelPanic' = TRUE
    /\ pc' = [pc EXCEPT !["watcher"] = "done"]
    /\ UNCHANGED << launchVars, Timeout, KilledByTimeout, Died, exitErr, cmd, pipe, startErr,
                    childVars, streamVars, stopVars >>

\* TimerFire with the q.KilledByTimeout assignment left out.
TimerFireNoFlag ==
    /\ pc["timer"] = "sleep"
    /\ pc' = [pc EXCEPT !["timer"] = "fired"]
    /\ UNCHANGED << launchVars, Timeout, flagVars, cmd, pipe, startErr, childVars, streamVars,
                    stopVars >>

\* The timeout goroutine: time.Sleep(q.Timeout); q.KilledByTimeout = true
TimerFire ==
    /\ pc["timer"] = "sleep"
    /\ KilledByTimeout' = TRUE
    /\ pc' = [pc EXCEPT !["timer"] = "fired"]
    /\ UNCHANGED << launchVars, Timeout, KernelPanic, Died, exitErr, cmd, pipe, startErr,
                    childVars, streamVars, stopVars >>

\* The error cmd.Wait returns for a child that ended as `status`.
WaitError(status) ==
    IF status \in {"exit0", "quit"} THEN "nil" ELSE status

\* WaitReturn with the result of q.cmd.Wait() dropped.
WaitReturnDropsError ==
    /\ pc["wait"] = "waiting"
    /\ child = "exited"
    /\ child' = "reaped"
    /\ pipe' = [stdin |-> "closed", stdout |-> "closed", stderr |-> "closed"]
    /\ pc' = [pc EXCEPT !["wait"] = "setDied"]
    /\ UNCHANGED << launchVars, Timeout, flagVars, cmd, startErr,
                    childStatus, quitPending, sigPending, streamVars, stopVars >>

\* q.exitErr = q.cmd.Wait(): reaps the child and closes the three pipes.
WaitReturn ==
    /\ pc["wait"] = "waiting"
    /\ child = "exited"
    /\ child' = "reaped"
    /\ exitErr' = WaitError(childStatus)
    /\ pipe' = [stdin |-> "closed", stdout |-> "closed", stderr |-> "closed"]
    /\ pc' = [pc EXCEPT !["wait"] = "setDied"]
    /\ UNCHANGED << launchVars, Timeout, KilledByTimeout, KernelPanic, Died, cmd, startErr,
                    childStatus, quitPending, sigPending, streamVars, stopVars >>

\* q.Died = true
WaitSetDied ==
    /\ pc["wait"] = "setDied"
    /\ Died' = TRUE
    /\ pc' = [pc EXCEPT !["wait"] = "done"]
    /\ UNCHANGED << launchVars, Timeout, KilledByTimeout, KernelPanic, exitErr, cmd, pipe,
                    startErr, childVars, streamVars, stopVars >>

\* CaptureRead appending buf[0:n-1] in the place of buf[0:n].
CaptureReadDropsByte ==
    /\ pc["capture"] = "reading"
    /\ IF pipe.stdout = "closed"
          THEN /\ pc' = [pc EXCEPT !["capture"] = "err"]
               /\ UNCHANGED << Stdout, outPipe >>
          ELSE IF outPipe # << >>
          THEN LET n == Min(Len(outPipe), bufSize) IN
               /\ Stdout' = Stdout \o SubSeq(outPipe, 1, n - 1)
               /\ outPipe' = SubSeq(outPipe, n + 1, Len(outPipe))
               /\ UNCHANGED pc
          ELSE /\ child # "running"
               /\ pc' = [pc EXCEPT !["capture"] = "eof"]
               /\ UNCHANGED << Stdout, outPipe >>
    /\ UNCHANGED << launchVars, Timeout, flagVars, cmd, pipe, startErr, childVars, outWritten,
                    writes, errVars, stopVars >>

\* One round of readUntilEOF on stdout.
CaptureRead ==
    /\ pc["capture"] = "reading"
    /\ IF pipe.stdout = "closed"
          THEN \* Read fails on the pipe Wait closed: return err
               /\ pc' = [pc EXCEPT !["capture"] = "err"]
               /\ UNCHANGED << Stdout, outPipe >>
          ELSE IF outPipe # << >>
          THEN LET n == Min(Len(outPipe), bufSize) IN
               /\ Stdout' = Stdout \o SubSeq(outPipe, 1, n)
               /\ outPipe' = SubSeq(outPipe, n + 1, Len(outPipe))
               /\ UNCHANGED pc
          ELSE \* io.EOF once the child is gone and the pipe is drained
               /\ child # "running"
               /\ pc' = [pc EXCEPT !["capture"] = "eof"]
               /\ UNCHANGED << Stdout, outPipe >>
    /\ UNCHANGED << launchVars, Timeout, flagVars, cmd, pipe, startErr, childVars, outWritten,
                    writes, errVars, stopVars >>

\* One round of readUntilEOF on stderr.
CaptureReadErr ==
    /\ pc["captureErr"] = "reading"
    /\ IF pipe.stderr = "closed"
          THEN /\ pc' = [pc EXCEPT !["captureErr"] = "err"]
               /\ UNCHANGED << Stderr, errPipe >>
          ELSE IF errPipe # << >>
          THEN LET n == Min(Len(errPipe), bufSize) IN
               /\ Stderr' = Stderr \o SubSeq(errPipe, 1, n)
               /\ errPipe' = SubSeq(errPipe, n + 1, Len(errPipe))
               /\ UNCHANGED pc
          ELSE /\ child # "running"
               /\ pc' = [pc EXCEPT !["captureErr"] = "eof"]
               /\ UNCHANGED << Stderr, errPipe >>
    /\ UNCHANGED << launchVars, Timeout, flagVars, cmd, pipe, startErr, childVars, Stdout,
                    outPipe, outWritten, writes, errWritten, stopVars >>

---------------------------------------------------------------------------
(* The child process *)

\* The guest writes to its console.
ChildWrite ==
    /\ child = "running"
    /\ writes < MaxWrites
    /\ \E c \in Chunks :
        /\ outPipe' = outPipe \o c
        /\ outWritten' = outWritten \o c
    /\ writes' = writes + 1
    /\ UNCHANGED << launchVars, pc, Timeout, flagVars, cmd, pipe, Stdout, startErr, childVars,
                    errVars, stopVars >>

ChildEnds(status) ==
    /\ child' = "exited"
    /\ childStatus' = status
    /\ quitPending' = FALSE
    /\ sigPending' = {}
    /\ IF status = "exit1"
          THEN \* a failing emulator leaves its complaint on stderr
               /\ errPipe' = errPipe \o ErrMessage
               /\ errWritten' = errWritten \o ErrMessage
          ELSE UNCHANGED << errPipe, errWritten >>
    /\ UNCHANGED << launchVars, pc, Timeout, flagVars, cmd, pipe, startErr, Stdout, outPipe,
                    outWritten, writes, Stderr, stopVars >>

\* The emulator exits on its own.
ChildExitSelf ==
    /\ child = "running"
    /\ \E status \in {"exit0", "exit1"} : ChildEnds(status)

\* The emulator obeys the quit escape or SIGTERM.
ChildExitOnRequest ==
    /\ child = "running"
    /\ \/ quitPending /\ ChildEnds("quit")
       \/ "SIGTERM" \in sigPending /\ ChildEnds("terminated")

\* SIGKILL ends the process.
ChildKilled ==
    /\ child = "running"
    /\ "SIGKILL" \in sigPending
    /\ ChildEnds("killed")

---------------------------------------------------------------------------

\* Every step but those of the stderr reader.
SupervisorNext ==
    \/ LaunchNext
    \/ StartPipes
    \/ StartSpawn
    \/ StartGrace
    \/ \E t \in Stoppers : StopWrite(t)
    \/ \E t \in Stoppers : StopCheck(t)
    \/ \E t \in Stoppers : StopTerm(t)
    \/ \E t \in Stoppers : StopKill(t)
    \/ WatcherSleep
    \/ WatcherPoll
    \/ WatcherSetPanic
    \/ TimerFire
    \/ WaitReturn
    \/ WaitSetDied
    \/ CaptureRead
    \/ ChildWrite
    \/ ChildExitSelf
    \/ ChildExitOnRequest
    \/ ChildKilled

Next == SupervisorNext \/ CaptureReadErr

Spec == Init /\ [][Next]_vars

\* The Go scheduler runs every runnable goroutine, a sleep ends, and the kernel
\* ends a process that was sent SIGKILL.  Nothing makes the caller call Stop,
\* the guest write, or the emulator exit on its own or on request.
Fairness ==
    /\ WF_vars(StartPipes)
    /\ WF_vars(StartSpawn)
    /\ WF_vars(StartGrace)
    /\ WF_vars(StopWrite("watcher"))
    /\ WF_vars(StopWrite("timer"))
    /\ \A t \in Stoppers : WF_vars(StopCheck(t))
    /\ \A t \in Stoppers : WF_vars(StopTerm(t))
    /\ \A t \in Stoppers : WF_vars(StopKill(t))
    /\ WF_vars(WatcherSleep)
    /\ WF_vars(WatcherPoll)
    /\ WF_vars(WatcherSetPanic)
    /\ WF_vars(TimerFire)
    /\ WF_vars(WaitReturn)
    /\ WF_vars(WaitSetDied)
    /\ WF_vars(CaptureRead)
    /\ WF_vars(ChildKilled)

\* The fair behaviours, with the stderr reader left out: its steps change
\* q.Stderr, the stderr pipe and its own position only, and no guard of any
\* other step reads those, so they add nothing but stuttering to what the
\* rest of the program does.
FairSpec == Init /\ [][SupervisorNext]_vars /\ Fairness

TypeOK ==
    /\ pc \in [Tasks -> STRING]
    /\ Timeout \in Timeouts
    /\ KilledByTimeout \in BOOLEAN
    /\ KernelPanic \in BOOLEAN
    /\ Died \in BOOLEAN
    /\ child \in {"none", "running", "exited", "reaped"}
    /\ sigPending \subseteq {"SIGTERM", "SIGKILL"}
    /\ writes \in 0..MaxWrites


---------------------------------------------------------------------------
(* Claims *)

InStop(t) == pc[t] \in {"stop_check", "stop_term", "stop_kill"}
\* `sub` occurs in `s`: stated on the bytes, apart from the code's search.
Occurs(sub, s) ==
    \E i \in 1..Len(s) :
        \A j \in 1..Len(sub) : i + j - 1 <= Len(s) /\ s[i + j - 1] = sub[j]
HasPanic == Occurs(PanicSig, Stdout)
ExitedOnItsOwn == childStatus \in {"exit0", "exit1"}

\* C1: once a Stop call is under way, and once the child has exited, a state
\* follows in which the child is not running and Died is true.
C1_StopLeadsToDied ==
    ((\E t \in Stoppers : InStop(t)) \/ child = "exited")
        ~> (child # "running" /\ Died)

\* The caller's Stop has returned and the child, which obeyed nothing else,
\* was killed and reaped.
C1_Witness ==
    /\ stopCalls["main"] = 1 /\ pc["main"] = "live"
    /\ childStatus = "killed" /\ child = "reaped" /\ Died

\* C2: at most one SIGTERM and at most one SIGKILL is sent in total, however
\* many Stop invocations run.
C2_AtMostOneSignalEach == termSignals <= 1 /\ killSignals <= 1

\* C3: with a timeout configured, unless the panic signature shows up in Stdout
\* or the child exits on its own, KilledByTimeout and Died become true; and
\* KernelPanic is true only if Stdout holds the signature.
C3_TimeoutKills ==
    /\ [](KernelPanic => HasPanic)
    /\ (Timeout # 0 /\ pc["main"] = "live")
           ~> ((KilledByTimeout /\ Died) \/ HasPanic \/ ExitedOnItsOwn)

\* The timer alone stopped a machine that neither panicked nor exited.
C3_Witness ==
    /\ KilledByTimeout /\ Died /\ ~KernelPanic
    /\ ~HasPanic /\ ~ExitedOnItsOwn
    /\ stopCalls["main"] = 0 /\ stopCalls["watcher"] = 0

\* C4: once Stdout contains the panic signature, a state follows in which
\* KernelPanic is true and the child is not running.
C4_PanicLeadsToStop == HasPanic ~> (KernelPanic /\ child # "running")

\* The watcher stopped a panicked machine; the signature was neither the
\* beginning nor the end of the captured output.
C4_Witness ==
    /\ KernelPanic /\ child = "reaped" /\ HasPanic
    /\ ~HasPrefix(Stdout, PanicSig)
    /\ stopCalls["watcher"] = 1

\* C5: KilledByTimeout and KernelPanic are never both true.
C5_OneCauseOfDeath == ~(KilledByTimeout /\ KernelPanic)

\* C6: a Stop invoked when Died was already true sends neither SIGTERM nor
\* SIGKILL.
C6_NoSignalAfterDied ==
    [][\A t \in Stoppers : (StopTerm(t) \/ StopKill(t)) => ~diedAtCall[t]]_vars

\* The caller's Stop, invoked on a dead machine, returned and no signal was
\* ever sent.
C6_Witness ==
    /\ diedAtCall["main"] /\ stopCalls["main"] = 1 /\ pc["main"] = "live"
    /\ termSignals = 0 /\ killSignals = 0

\* C7: no Stop sends SIGKILL in a state where Died is already true.
C7_KillOnlyIfAlive == [][\A t \in Stoppers : StopKill(t) => ~Died]_vars

\* C8: the watcher invokes Stop at most once, and never after the caller or
\* the timer has invoked Stop.
C8_WatcherStopsFirstOrNever ==
    [][/\ stopCalls'["watcher"] <= 1
       /\ StopWrite("watcher") => (stopCalls["main"] = 0 /\ stopCalls["timer"] = 0)
      ]_vars

\* C9: once the caller or the timer has invoked Stop and Died is true, the
\* watcher eventually terminates.
C9_WatcherTerminates ==
    ((stopCalls["main"] > 0 \/ stopCalls["timer"] > 0) /\ Died)
        ~> (pc["watcher"] = "done")

\* C10: the timer invokes Stop at most once, after setting KilledByTimeout;
\* with a timeout configured it does so once Start has launched it; without a
\* timeout there is no timer and KilledByTimeout stays false.
C10_TimerOneShot ==
    /\ [](stopCalls["timer"] <= 1)
    /\ [](stopCalls["timer"] = 1 => KilledByTimeout)
    /\ [](KilledByTimeout => (Timeout # 0 /\ pc["timer"] \notin {"none", "sleep"}))
    /\ [](Timeout = 0 => (pc["timer"] = "none" /\ stopCalls["timer"] = 0))
    /\ (Timeout # 0 /\ pc["main"] = "live")
           ~> (pc["timer"] = "done" /\ stopCalls["timer"] = 1 /\ KilledByTimeout)

\* The timer has fired, stopped the machine and ended.
C10_Witness ==
    /\ Timeout # 0 /\ pc["timer"] = "done"
    /\ stopCalls["timer"] = 1 /\ KilledByTimeout /\ Died

\* C11: when a pipe cannot be opened or the spawn fails, Start returns that
\* error with no goroutine launched and no process running; the process is
\* never spawned with a pipe missing.
C11_FailedStartLaunchesNothing ==
    /\ startErr \in {"pipe", "spawn"} =>
           /\ pc["main"] = "failed"
           /\ \A t \in Tasks \ {"main"} : pc[t] = "none"
           /\ child = "none"
    /\ (\E f \in {"stdin", "stdout", "stderr"} : pipe[f] = "nil") =>
           /\ child = "none" /\ cmd # "started"
           /\ pc["main"] = "failed" => startErr = "pipe"
           /\ pc["main"] \notin {"spawn", "grace", "live"} /\ ~InStop("main")

\* Start returned the error of the stderr pipe, after the other two opened.
C11_Witness ==
    /\ startErr = "pipe" /\ pc["main"] = "failed"
    /\ pipe.stdin = "open" /\ pipe.stderr = "nil"

\* C12: the step that ends Start after a successful spawn returns the
\* immediate-exit error exactly when Died is true at that moment, launches the
\* watcher, and launches the timer exactly when Timeout is nonzero; what Start
\* returned never changes afterwards.
C12_ImmediateExitReported ==
    [][/\ (pc["main"] = "grace" /\ pc'["main"] # "grace") =>
              /\ (startErr' = "died") <=> Died
              /\ (startErr' = "none") <=> ~Died
              /\ pc'["watcher"] # "none"
              /\ (pc'["timer"] # "none") <=> (Timeout # 0)
       /\ startErr # "pending" => startErr' = startErr
      ]_vars

\* Start reported the immediate exit and both monitors are running.
C12_Witness ==
    /\ startErr = "died" /\ Died
    /\ pc["watcher"] \in {"sleep", "poll"} /\ pc["timer"] = "sleep"

\* C13: the port allocator, once it has stopped trying, has either recorded a
\* candidate it synthesized and bound, or made Start return an allocation
\* error; it never ends the program.
C13_AllocatorReturnsError ==
    pc["main"] \notin {"new", "configured", "rejected"} =>
        \/ sshAddrPort \in Candidates
        \/ (pc["main"] = "failed" /\ startErr = "alloc")

\* C14: NewQemuSystem returns an error exactly when the emulator binary, the
\* kernel or the disk is missing; the error names the first of them that is
\* missing; and a rejected configuration has no process, pipe or goroutine.
C14_ConfigurationRejected ==
    LET binary == "qemu-system-" \o input.arch
        missing == (IF binary \in host.path THEN << >> ELSE << binary >>)
                   \o (IF input.kernel.KernelPath \in host.files
                          THEN << >> ELSE << input.kernel.KernelPath >>)
                   \o (IF input.drivePath \in host.files
                          THEN << >> ELSE << input.drivePath >>)
    IN  newErr.op # "pending" =>
           /\ (missing = << >>) <=> (newErr.op = "nil")
           /\ missing # << >> =>
                 /\ newErr.name = Head(missing)
                 /\ newErr.op = (IF newErr.name = binary THEN "exec" ELSE "stat")
                 /\ pc["main"] = "rejected"
                 /\ \A t \in Tasks \ {"main"} : pc[t] = "none"
                 /\ child = "none" /\ cmd = "nil"
                 /\ pipe = [stdin |-> "nil", stdout |-> "nil", stderr |-> "nil"]

\* NewQemuSystem rejected a configuration whose disk image does not exist.
C14_Witness ==
    /\ pc["main"] = "rejected"
    /\ newErr = [op |-> "stat", name |-> DrivePath]
    /\ KernelPath \in host.files

\* Whether the invocation carries `flag`, and whether it carries -accel hvf.
HasFlag(flag) == \E i \in 1..Len(qemuArgs) : qemuArgs[i] = flag
HasAccelHvf ==
    \E i \in 1..Len(qemuArgs) :
        i < Len(qemuArgs) /\ qemuArgs[i] = "-accel" /\ qemuArgs[i + 1] = "hvf"

\* C15: the invocation carries -enable-kvm exactly when the architecture is
\* x86_64 or i386 and /dev/kvm exists, carries -accel hvf only for x86_64
\* with no /dev/kvm, and never carries both.
C15_AccelerationFlags ==
    qemuArgs # << >> =>
        /\ HasFlag("-enable-kvm") <=> (input.arch \in {X86_64, I386} /\ host.kvm)
        /\ HasAccelHvf => (input.arch = X86_64 /\ ~host.kvm)
        /\ ~(HasFlag("-enable-kvm") /\ HasAccelHvf)

\* C16: once Died is true, no step changes Died, KilledByTimeout, KernelPanic
\* or exitErr.
C16_TerminalStateFrozen ==
    [][Died => /\ Died' = Died
               /\ KilledByTimeout' = KilledByTimeout
               /\ KernelPanic' = KernelPanic
               /\ exitErr' = exitErr]_vars

\* The escalation of one Stop call, in the order the claim gives.
Escalation == << "quit", "SIGTERM", "SIGKILL" >>

\* C17: what a Stop call has done is always an initial part of quit, SIGTERM,
\* SIGKILL; KernelPanic is set only after the watcher's Stop has returned, and
\* the watcher has ended only after setting KernelPanic.
C17_EscalationOrder ==
    /\ \A t \in Stoppers :
          /\ Len(stopLog[t]) <= Len(Escalation)
          /\ stopLog[t] = SubSeq(Escalation, 1, Len(stopLog[t]))
          /\ InStop(t) => stopLog[t] # << >>
    /\ KernelPanic => (stopCalls["watcher"] = 1 /\ pc["watcher"] = "done")
    /\ pc["watcher"] = "done" => KernelPanic
    /\ pc["watcher"] = "setPanic" => stopLog["watcher"] # << >>

\* The watcher's Stop went through the whole escalation before KernelPanic.
C17_Witness ==
    /\ stopLog["watcher"] = Escalation
    /\ KernelPanic /\ pc["watcher"] = "done"

\* s is an initial part of t.
IsPrefix(s, t) == Len(s) <= Len(t) /\ \A i \in 1..Len(s) : s[i] = t[i]

\* C18: Stdout and Stderr only ever grow at the end; each is an initial part
\* of what the child wrote to that stream; each changes only in a step of its
\* own readUntilEOF, which changes nothing of the other; and a readUntilEOF
\* that ended on end-of-stream has left the whole stream in its accumulator.
C18_AccumulatorsAppendOnly ==
    /\ [](IsPrefix(Stdout, outWritten) /\ IsPrefix(Stderr, errWritten))
    /\ [](pc["capture"] = "eof" => Stdout = outWritten)
    /\ [](pc["captureErr"] = "eof" => Stderr = errWritten)
    /\ [][/\ IsPrefix(Stdout, Stdout') /\ IsPrefix(Stderr, Stderr')
          /\ Stdout' # Stdout =>
                /\ pc["capture"] = "reading" /\ pc' = pc
                /\ Stderr' = Stderr
                /\ Len(Stdout') - Len(Stdout) = Len(outPipe) - Len(outPipe')
          /\ Stderr' # Stderr =>
                /\ pc["captureErr"] = "reading" /\ pc' = pc
                /\ Stdout' = Stdout
                /\ Len(Stderr') - Len(Stderr) = Len(errPipe) - Len(errPipe')
         ]_vars

\* Both readUntilEOF goroutines ended on end-of-stream with output captured.
C18_Witness ==
    /\ pc["capture"] = "eof" /\ pc["captureErr"] = "eof"
    /\ Stdout # << >> /\ Stdout = outWritten
    /\ Stderr = ErrMessage

\* C19: Died is true only when the child was reaped and exitErr holds what
\* Wait returned for the way the child ended; Died never reverts and only the
\* wait goroutine's last step sets it.
C19_DiedAfterExit ==
    /\ [](Died => /\ child = "reaped"
                  /\ pc["wait"] = "done"
                  /\ exitErr = IF childStatus \in {"exit0", "quit"}
                                  THEN "nil" ELSE childStatus)
    /\ [][/\ Died => Died'
          /\ Died' # Died => (pc["wait"] = "setDied" /\ pc'["wait"] = "done")
         ]_vars

\* Died is set for a child that was killed, with Wait's error recorded.
C19_Witness == Died /\ childStatus = "killed" /\ exitErr = "killed"

\* C20: a monitor exists, and is inside Stop, only with the process started
\* and the three pipes set.
C20_MonitorsStopStartedProcess ==
    \A t \in {"watcher", "timer"} :
        pc[t] # "none" =>
            /\ cmd = "started" /\ child # "none"
            /\ pipe.stdin # "nil" /\ pipe.stdout # "nil" /\ pipe.stderr # "nil"

\* The timer is inside Stop on a started process.
C20_Witness ==
    /\ InStop("timer") /\ cmd = "started" /\ pipe.stdin = "open"

===========================================================================
